---- MODULE Spec2Model ----
(***************************************************************************)
(* A model of .github/scripts/slo_gate_check.py: the SLO release gate.     *)
(*                                                                         *)
(* Metric values and thresholds are fixed-point numbers in tenths (the     *)
(* threshold 0.3 is 3, 200.0 is 2000), so every comparison of the source   *)
(* is an exact integer comparison here.  A timestamp is the ISO-8601       *)
(* string the source stores, modelled as a sequence of characters; time    *)
(* itself is an integer tick.                                              *)
(***************************************************************************)
EXTENDS Integers, Sequences, FiniteSets, TLC

VARIABLES
    procs,        \* the invocations of main() that may run (process ids)
    started,      \* number of invocations started so far
    clock,        \* wall clock, in ticks
    file,         \* .slo_gate_history.json: [kind, runs]
    env,          \* what the environment may do:
                  \*   [faults, docs, responses, count_responses]
    pc,           \* pc[p]: position of invocation p in main()
    args,         \* args[p]: [sku, sha] of invocation p
    results,      \* results[p]: the loaded current measurement document
    gate_info,    \* gate_info[p]: the dict should_pass_gate builds
    retval,       \* retval[p]: what should_pass_gate returned
    locals,       \* locals[p]: local variables of should_pass_gate / _record_gate_result
    calls,        \* calls[p]: methods invoked so far by invocation p, in order
    exit_code,    \* exit_code[p]: process exit status, -1 while running
    arg,          \* argument of the function under check (function harnesses)
    ret           \* its return value (function harnesses)

vars == <<procs, started, clock, file, env, pc, args, results, gate_info,
          retval, locals, calls, exit_code, arg, ret>>

(***************************************************************************)
(* Program constants (SloGateChecker.__init__ and _record_gate_result).    *)
(***************************************************************************)
drift_threshold_percent == 5
consecutive_passes_required == 2
MaxHistoryRuns == 50

\* self.critical_metrics, in insertion (table) order
CriticalNames ==
    << "scheduler.input_p99_ms", "graphics.jitter_p99_ms",
       "scheduler.compositor_cpu_ms", "audio.jitter_p99_us",
       "ipc.rtt_same_core_p99_us", "cap.revoke_block_new_p99_us",
       "memory.anon_page_fault_p99_us", "memory.tlb_shootdown_p99_us" >>

CriticalSet == {CriticalNames[i] : i \in 1..Len(CriticalNames)}

\* thresholds in tenths: 2.0, 0.3, 1.5, 200.0, 3.0, 200.0, 15.0, 40.0
critical_metrics ==
    [m \in CriticalSet |->
        CASE m = "scheduler.input_p99_ms"        -> 20
          [] m = "graphics.jitter_p99_ms"        -> 3
          [] m = "scheduler.compositor_cpu_ms"   -> 15
          [] m = "audio.jitter_p99_us"           -> 2000
          [] m = "ipc.rtt_same_core_p99_us"      -> 30
          [] m = "cap.revoke_block_new_p99_us"   -> 2000
          [] m = "memory.anon_page_fault_p99_us" -> 150
          [] m = "memory.tlb_shootdown_p99_us"   -> 400]

(***************************************************************************)
(* Bounds of the model.                                                    *)
(***************************************************************************)
TicksPerSecond == 2     \* clock ticks per second; tick 0 of a second has microsecond = 0
MaxInvocations == 3     \* invocations of main() in one behaviour
MaxAppends == 3         \* records appended in the store harness
MaxStoreRuns == 4       \* records of a store handed to the local counter
MaxListing == 3         \* runs in a remote run listing
MaxSamples == 3         \* historical samples handed to the drift analysis

(***************************************************************************)
(* Helpers on sequences.                                                   *)
(***************************************************************************)
Last(s) == s[Len(s)]

\* Python's s[-n:]
LastN(s, n) == IF Len(s) <= n THEN s ELSE SubSeq(s, Len(s) - n + 1, Len(s))

Range(s) == {s[i] : i \in 1..Len(s)}

\* f-string "{x:.3f}" of a value in tenths: integer part, three fraction digits
Fmt3(v) == <<v \div 10, (v % 10) * 100>>

(***************************************************************************)
(* check_critical_metrics                                                  *)
(***************************************************************************)
\* a threshold comparison that also rejects a value equal to the threshold
ExceedsOrEqual(value, threshold) == value >= threshold

\* `if value > threshold` (line 204)
Exceeds(value, threshold) == value > threshold

\* a loop body that passes over an absent metric without reporting it
CriticalFailureSkipMissing(metrics, i) ==
    LET metric == CriticalNames[i]
        threshold == critical_metrics[metric]
    IN  IF metric \in DOMAIN metrics /\ Exceeds(metrics[metric], threshold)
        THEN << <<"SLO violation: ", metric, " = ", Fmt3(metrics[metric]),
                  "us > ", Fmt3(threshold), "us">> >>
        ELSE << >>

\* the failure appended for table entry i, or none: one pass of the loop body
CriticalFailure(metrics, i) ==
    LET metric == CriticalNames[i]
        threshold == critical_metrics[metric]
    IN  IF metric \notin DOMAIN metrics
        THEN << <<"Missing critical metric: ", metric>> >>
        ELSE IF Exceeds(metrics[metric], threshold)
             THEN << <<"SLO violation: ", metric, " = ", Fmt3(metrics[metric]),
                       "us > ", Fmt3(threshold), "us">> >>
             ELSE << >>

RECURSIVE CriticalFailures(_, _)
CriticalFailures(metrics, n) ==
    IF n = 0 THEN << >>
    ELSE CriticalFailures(metrics, n - 1) \o CriticalFailure(metrics, n)

\* returns (len(failures) == 0, failures)
check_critical_metrics(res) ==
    LET failures == CriticalFailures(res.metrics, Len(CriticalNames))
    IN  <<Len(failures) = 0, failures>>

(***************************************************************************)
(* Timestamps: datetime.utcnow().isoformat() + 'Z'.                        *)
(* isoformat() prints the fraction of the second only when the microsecond *)
(* field is non-zero.  The constant date/hour/minute prefix is left out;   *)
(* the seconds are two zero-padded digits, the fraction is one digit here  *)
(* (six in the source), which keeps the comparison of any two strings.     *)
(***************************************************************************)
Digits == <<"0", "1", "2", "3", "4", "5", "6", "7", "8", "9">>

Digit(n) == Digits[n + 1]

\* code point of a character, as Python's string comparison uses it
Ord(c) ==
    CASE c = "." -> 46
      [] c = "Z" -> 90
      [] OTHER   -> 47 + CHOOSE k \in 1..10 : Digits[k] = c

isoformat(t) ==
    LET sec == t \div TicksPerSecond
        sub == t % TicksPerSecond
        hms == <<Digit((sec \div 10) % 10), Digit(sec % 10)>>
    IN  IF sub = 0 THEN hms ELSE hms \o <<".", Digit(sub)>>

\* the 'timestamp' field written at tick t
Timestamp(t) == isoformat(t) \o <<"Z">>

\* Python's a < b on strings: lexicographic by code point, a proper prefix is less
RECURSIVE StrLess(_, _)
StrLess(a, b) ==
    IF b = << >> THEN FALSE
    ELSE IF a = << >> THEN TRUE
    ELSE IF Head(a) = Head(b) THEN StrLess(Tail(a), Tail(b))
    ELSE Ord(Head(a)) < Ord(Head(b))

(***************************************************************************)
(* The Run History Store file and its operations.                          *)
(*   kind = "absent"  : the file does not exist                            *)
(*   kind = "ok"      : the file holds json.dump({'runs': runs})           *)
(*   kind = "partial" : the file was truncated by open(.., 'w') and the    *)
(*                      document is not (completely) written: not JSON     *)
(***************************************************************************)
AbsentFile == [kind |-> "absent", runs |-> << >>]
PartialFile == [kind |-> "partial", runs |-> << >>]
OkFile(runs) == [kind |-> "ok", runs |-> runs]

\* _load_local_gate_history: readable = FALSE is an OSError raised by open/read
_load_local_gate_history(f, readable) ==
    IF f.kind = "ok" /\ readable
    THEN [runs |-> f.runs]
    ELSE [runs |-> << >>]     \* no file, or the except branch: {'runs': []}

\* a record that stores a pass whatever the decision was
NewResultAlwaysPassed(t, sku, sha, gate_passed, res) ==
    [timestamp |-> Timestamp(t), sku |-> sku, sha |-> sha,
     gate_passed |-> TRUE, metrics |-> res.metrics]

\* the new_result dict of _record_gate_result
NewResult(t, sku, sha, gate_passed, res) ==
    [timestamp |-> Timestamp(t), sku |-> sku, sha |-> sha,
     gate_passed |-> gate_passed, metrics |-> res.metrics]

\* an append that keeps the first 50 runs (runs[:50]) instead of the last 50
AppendCappedKeepOldest(runs, new_result) ==
    LET appended == Append(runs, new_result)
    IN  IF Len(appended) > MaxHistoryRuns
        THEN SubSeq(appended, 1, MaxHistoryRuns)
        ELSE appended

\* history['runs'].append(new_result); keep only the last 50
AppendCapped(runs, new_result) ==
    LET appended == Append(runs, new_result)
    IN  IF Len(appended) > MaxHistoryRuns
        THEN LastN(appended, MaxHistoryRuns)
        ELSE appended

\* _save_local_gate_history: open(.., 'w') truncates the file, json.dump writes
\* it; outcome "open_fails" is open() raising, "write_fails" is json.dump or
\* the flush raising after the truncation; both are caught and only printed
SaveOutcomes == {"ok", "open_fails", "write_fails"}

_save_local_gate_history(f, history, outcome) ==
    CASE outcome = "ok"          -> OkFile(history.runs)
      [] outcome = "open_fails"  -> f
      [] outcome = "write_fails" -> PartialFile

\* the outcomes the environment may give to a read / a save of the store file
ReadOutcomes == IF env.faults THEN BOOLEAN ELSE {TRUE}
WriteOutcomes == IF env.faults THEN SaveOutcomes ELSE {"ok"}

(***************************************************************************)
(* _check_consecutive_passes_local                                         *)
(***************************************************************************)
\* key(x) >= key(y), the order list.sort(reverse=True) keeps
KeyGeq(x, y) == ~StrLess(x.timestamp, y.timestamp)

\* place run x into the descending list s behind every run whose key is >= its own
RECURSIVE InsertDesc(_, _)
InsertDesc(s, x) ==
    IF s = << >> THEN <<x>>
    ELSE IF KeyGeq(Head(s), x) THEN <<Head(s)>> \o InsertDesc(Tail(s), x)
    ELSE <<x>> \o s

\* sku_runs.sort(key=lambda x: x['timestamp'], reverse=True): stable, descending
RECURSIVE SortNewestFirst(_)
SortNewestFirst(s) ==
    IF s = << >> THEN << >>
    ELSE InsertDesc(SortNewestFirst(SubSeq(s, 1, Len(s) - 1)), Last(s))

\* a count that takes the records of every configuration
SkuRunsOfAnySku(runs, sku) == runs

\* [run for run in history['runs'] if run.get('sku') == sku]
SkuRuns(runs, sku) == SelectSeq(runs, LAMBDA run : run.sku = sku)

\* the counting loop: increment while gate_passed, break at the first failure
RECURSIVE LeadingPasses(_)
LeadingPasses(s) ==
    IF s = << >> THEN 0
    ELSE IF Head(s).gate_passed THEN 1 + LeadingPasses(Tail(s))
    ELSE 0

_check_consecutive_passes_local(sku, f, readable) ==
    LET history == _load_local_gate_history(f, readable)
    IN  LeadingPasses(SortNewestFirst(SkuRuns(history.runs, sku)))

(***************************************************************************)
(* _check_consecutive_passes_github                                        *)
(* A listing response is [ok, runs]: ok = FALSE when the request raises,   *)
(* raise_for_status() raises or the body has no 'workflow_runs'.  A run is *)
(*   name_slo   : 'slo' in run['name'].lower()                             *)
(*   conclusion : run['conclusion']                                        *)
(*   artifacts  : the artifact listing of the run,                         *)
(*      "raise"   the request raises or its body is malformed              *)
(*      "status"  status_code != 200                                       *)
(*      "nomatch" 200, no artifact name holds 'slo-results' and the sku    *)
(*      "match"   200, some artifact name holds both (case-insensitively)  *)
(*   doc        : what _download_and_parse_artifact returns for the         *)
(*                matching artifact, [kind, metrics]:                      *)
(*      "none"      None: the download raised, no .json member, bad JSON   *)
(*      "empty"     a falsy document ({} or [])                            *)
(*      "nondict"   a truthy document that is no dict                      *)
(*      "nometrics" a dict without a 'metrics' key                         *)
(*      "metrics"   a dict with 'metrics'                                  *)
(***************************************************************************)
NoMetrics == [m \in {} |-> 0]

Doc(kind) == [kind |-> kind, metrics |-> NoMetrics]

MetricsDoc(res) == [kind |-> "metrics", metrics |-> res.metrics]

\* a walk that passes over a failed SLO run instead of stopping at it
RECURSIVE GithubWalkSkipFailed(_, _, _)
GithubWalkSkipFailed(runs, i, count) ==
    IF i > Len(runs) THEN [raised |-> FALSE, count |-> count]
    ELSE LET run == runs[i] IN
         IF ~run.name_slo \/ run.conclusion # "success"
         THEN GithubWalkSkipFailed(runs, i + 1, count)
         ELSE CASE run.artifacts = "raise"   -> [raised |-> TRUE, count |-> count]
                [] run.artifacts = "match"   -> GithubWalkSkipFailed(runs, i + 1, count + 1)
                [] OTHER -> [raised |-> FALSE, count |-> count]

\* the loop from run i on; [raised, count]
RECURSIVE GithubWalk(_, _, _)
GithubWalk(runs, i, count) ==
    IF i > Len(runs) THEN [raised |-> FALSE, count |-> count]
    ELSE LET run == runs[i] IN
         IF ~run.name_slo THEN GithubWalk(runs, i + 1, count)          \* continue
         ELSE IF run.conclusion = "success"
              THEN CASE run.artifacts = "raise"   -> [raised |-> TRUE, count |-> count]
                     [] run.artifacts = "match"   -> GithubWalk(runs, i + 1, count + 1)
                     [] OTHER -> [raised |-> FALSE, count |-> count]   \* break
              ELSE [raised |-> FALSE, count |-> count]                 \* break

_check_consecutive_passes_github(response) ==
    IF ~response.ok THEN 0
    ELSE LET walk == GithubWalk(response.runs, 1, 0)
         IN  IF walk.raised THEN 0 ELSE walk.count

(***************************************************************************)
(* get_historical_results                                                  *)
(***************************************************************************)
\* `if slo_data:` holds and slo_data['timestamp'] = ... does not raise
KeptSample(doc) == doc.kind \in {"nometrics", "metrics"}

\* the loop over workflow_runs from run i on; [raised, results]
RECURSIVE HistoricalWalk(_, _, _)
HistoricalWalk(runs, i, acc) ==
    IF i > Len(runs) THEN [raised |-> FALSE, results |-> acc]
    ELSE LET run == runs[i] IN
         IF run.conclusion # "success" THEN HistoricalWalk(runs, i + 1, acc)
         ELSE CASE run.artifacts = "raise" -> [raised |-> TRUE, results |-> acc]
                [] run.artifacts = "match" ->
                     IF KeptSample(run.doc)
                     THEN HistoricalWalk(runs, i + 1, Append(acc, run.doc))
                     ELSE HistoricalWalk(runs, i + 1, acc)
                [] OTHER -> HistoricalWalk(runs, i + 1, acc)           \* continue

\* an outer except that returns the samples collected before the exception
get_historical_results_keep_partial(response) ==
    IF ~response.ok THEN << >>
    ELSE HistoricalWalk(response.runs, 1, << >>).results

\* any exception inside the outer try returns []
get_historical_results(response) ==
    IF ~response.ok THEN << >>
    ELSE LET walk == HistoricalWalk(response.runs, 1, << >>)
         IN  IF walk.raised THEN << >> ELSE walk.results

(***************************************************************************)
(* calculate_drift.  The median is kept doubled (Median2) so that the mean *)
(* of two middle values stays an integer; the drift percentage is the      *)
(* fraction <<numerator, denominator>>.                                    *)
(***************************************************************************)
RECURSIVE InsertAsc(_, _)
InsertAsc(s, x) ==
    IF s = << >> THEN <<x>>
    ELSE IF Head(s) <= x THEN <<Head(s)>> \o InsertAsc(Tail(s), x)
    ELSE <<x>> \o s

RECURSIVE Sorted(_)
Sorted(s) == IF s = << >> THEN << >> ELSE InsertAsc(Sorted(Tail(s)), Head(s))

\* twice statistics.median(values), values non-empty
Median2(values) ==
    LET srt == Sorted(values)
        n == Len(srt)
    IN  IF n % 2 = 1 THEN 2 * srt[(n + 1) \div 2]
        ELSE srt[n \div 2] + srt[n \div 2 + 1]

\* historical_metrics[metric]: the values of metric over the samples holding it
RECURSIVE HistoricalValues(_, _)
HistoricalValues(historical, metric) ==
    IF historical = << >> THEN << >>
    ELSE (IF metric \in DOMAIN Head(historical).metrics
          THEN <<Head(historical).metrics[metric]>> ELSE << >>)
         \o HistoricalValues(Tail(historical), metric)

Abs(x) == IF x < 0 THEN -x ELSE x

\* abs((current - median) / median) * 100 as a fraction, with median = median2 / 2
DriftPercent(current, median2) == <<100 * Abs(2 * current - median2), median2>>

\* a comparison that also flags a drift equal to the threshold
DriftExceedsOrEqual(drift) == drift[1] >= drift_threshold_percent * drift[2]

\* drift_percent > self.drift_threshold_percent
DriftExceeds(drift) == drift[1] > drift_threshold_percent * drift[2]

\* lines 217-238, the analysis against a non-empty history
DriftAgainst(current_results, historical_results) ==
    IF \E i \in 1..Len(historical_results) : historical_results[i].kind # "metrics"
    THEN [raised |-> TRUE, pass |-> FALSE, violations |-> << >>]
    ELSE LET values(m) == HistoricalValues(historical_results, m)
             drifting ==
                 {m \in DOMAIN current_results.metrics :
                     /\ Len(values(m)) > 0
                     /\ Median2(values(m)) > 0
                     /\ DriftExceeds(DriftPercent(current_results.metrics[m],
                                                  Median2(values(m))))}
         IN  [raised |-> FALSE, pass |-> drifting = {},
              violations |-> [m \in drifting |->
                  DriftPercent(current_results.metrics[m], Median2(values(m)))]]

\* a drift analysis that takes the absence of history for a failure
calculate_drift_needs_history(current_results, historical_results) ==
    IF historical_results = << >>
    THEN [raised |-> FALSE, pass |-> FALSE, violations |-> << >>]
    ELSE DriftAgainst(current_results, historical_results)

\* [raised, pass, violations]; raised: result['metrics'] raises KeyError
calculate_drift(current_results, historical_results) ==
    IF historical_results = << >>
    THEN [raised |-> FALSE, pass |-> TRUE, violations |-> << >>]
    ELSE DriftAgainst(current_results, historical_results)

(***************************************************************************)
(* Inputs: configuration ids and measurement documents.                    *)
(***************************************************************************)
Skus == {"sku-a", "sku-b"}

\* a measurement with every critical metric at threshold + offset, plus one
\* metric outside the critical table
Measurement(offset) ==
    [kind |-> "metrics", platform |-> TRUE,
     metrics  |-> [m \in CriticalSet \cup {"power.idle_w"} |->
                     IF m \in CriticalSet THEN critical_metrics[m] + offset ELSE 50]]

Nominal == Measurement(0)

\* every critical metric two tenths below its threshold
Low == Measurement(-2)

\* one critical metric missing and a later one above its threshold
Bad ==
    [kind |-> "metrics", platform |-> TRUE,
     metrics |-> [m \in DOMAIN Nominal.metrics \ {"graphics.jitter_p99_ms"} |->
                    IF m = "audio.jitter_p99_us" THEN Nominal.metrics[m] + 1
                    ELSE Nominal.metrics[m]]]

\* the documents --results holds in the invocations of main(); a document has
\* kind = "metrics" when it has a 'metrics' key and platform = TRUE when it has
\* a 'platform' key
CurrentDocs == {Nominal, Low, Bad}

\* the answers of the remote run listing used in the invocations of main()
GoodRun(res) ==
    [name_slo |-> TRUE, conclusion |-> "success", artifacts |-> "match",
     doc |-> MetricsDoc(res)]

RemoteResponses ==
    { [ok |-> FALSE, runs |-> << >>],
      [ok |-> TRUE, runs |-> << >>],
      [ok |-> TRUE, runs |-> <<GoodRun(Nominal)>>],
      [ok |-> TRUE, runs |-> <<GoodRun(Nominal), GoodRun(Nominal)>>] }

\* the environment of the function harnesses: no faults, nothing supplied
NoEnv == [faults |-> FALSE, docs |-> {}, responses |-> {}, count_responses |-> {}]

\* the environment of the invocations of main(): the store file never fails;
\* responses answers the run listing of get_historical_results (line 146),
\* count_responses the one of _check_consecutive_passes_github (line 264)
MainEnv ==
    [faults |-> FALSE, docs |-> CurrentDocs, responses |-> RemoteResponses,
     count_responses |-> RemoteResponses]

\* the state of every variable the function harnesses do not use
MainIdle ==
    /\ procs = {}
    /\ started = 0
    /\ clock = 0
    /\ file = AbsentFile
    /\ env = NoEnv
    /\ pc = << >>
    /\ args = << >>
    /\ results = << >>
    /\ gate_info = << >>
    /\ retval = << >>
    /\ locals = << >>
    /\ calls = << >>
    /\ exit_code = << >>

mainVars == <<procs, started, clock, file, env, pc, args, results, gate_info,
              retval, locals, calls, exit_code>>

Pending == [done |-> FALSE, value |-> 0]
Returned(v) == [done |-> TRUE, value |-> v]

(***************************************************************************)
(* SpecCritical: check_critical_metrics on every measurement in which each *)
(* critical metric is absent, below, at or above its threshold.            *)
(***************************************************************************)
CriticalInput(choice) ==
    [kind |-> "metrics", platform |-> TRUE,
     metrics  |-> [m \in {n \in CriticalSet : choice[n] # 0} |->
                     critical_metrics[m] + choice[m] - 2]]

InitCritical ==
    /\ MainIdle
    /\ \E choice \in [CriticalSet -> 0..3] : arg = CriticalInput(choice)
    /\ ret = Pending

CallCheckCritical ==
    /\ ~ret.done
    /\ ret' = Returned(check_critical_metrics(arg))
    /\ UNCHANGED <<mainVars, arg>>

NextCritical == CallCheckCritical

SpecCritical == InitCritical /\ [][NextCritical]_vars

(***************************************************************************)
(* SpecLocal: _check_consecutive_passes_local on every store of up to      *)
(* MaxStoreRuns records written at increasing clock ticks.                 *)
(***************************************************************************)
MaxStoreTick == MaxStoreRuns + 2

IncreasingTicks(k) ==
    {t \in [1..k -> 0..MaxStoreTick] : \A i \in 1..(k - 1) : t[i] < t[i + 1]}

StoreOf(k, t, s, g) ==
    [i \in 1..k |-> NewResult(t[i], s[i], i, g[i], Nominal)]

InitLocal ==
    /\ MainIdle
    /\ \E k \in 0..MaxStoreRuns :
         \E t \in IncreasingTicks(k), s \in [1..k -> Skus], g \in [1..k -> BOOLEAN] :
           \E sku \in Skus :
             arg = [sku |-> sku, file |-> OkFile(StoreOf(k, t, s, g))]
    /\ ret = Pending

CallCheckLocal ==
    /\ ~ret.done
    /\ ret' = Returned(_check_consecutive_passes_local(arg.sku, arg.file, TRUE))
    /\ UNCHANGED <<mainVars, arg>>

NextLocal == CallCheckLocal

SpecLocal == InitLocal /\ [][NextLocal]_vars

(***************************************************************************)
(* SpecGithub: _check_consecutive_passes_github on every listing of up to  *)
(* MaxListing runs.                                                        *)
(***************************************************************************)
ArtifactKinds == {"raise", "status", "nomatch", "match"}

RunShapes ==
    [name_slo : BOOLEAN, conclusion : {"success", "failure"},
     artifacts : ArtifactKinds, doc : {MetricsDoc(Nominal)}]

Listings(n) == UNION {[1..k -> RunShapes] : k \in 0..n}

InitGithub ==
    /\ MainIdle
    /\ \E ok \in BOOLEAN, runs \in Listings(MaxListing) :
         arg = [ok |-> ok, runs |-> runs]
    /\ ret = Pending

CallCheckGithub ==
    /\ ~ret.done
    /\ ret' = Returned(_check_consecutive_passes_github(arg))
    /\ UNCHANGED <<mainVars, arg>>

NextGithub == CallCheckGithub

SpecGithub == InitGithub /\ [][NextGithub]_vars

(***************************************************************************)
(* SpecDrift: calculate_drift on a current measurement of up to two        *)
(* metrics against every history of up to MaxSamples samples, each holding *)
(* or lacking either metric.  The history values of the first metric give  *)
(* medians of 100 to 140 (half values included), the current values lie    *)
(* below, on and above 5% of them; the history values of the second metric *)
(* give zero and negative medians.                                         *)
(***************************************************************************)
DriftMetricA == "scheduler.input_p99_ms"
DriftMetricB == "power.idle_w"

HistoryValuesA == {100, 120, 140}
HistoryValuesB == {-20, 0}
CurrentValuesA == {114, 116, 125, 126, 127}
CurrentValuesB == {10}

\* a metric that is absent (<< >>) or present with one of the values (<<v>>)
Optional(values) == {<< >>} \cup {<<v>> : v \in values}

\* the measurement document holding the metrics that are present
DriftDoc(a, b) ==
    [kind |-> "metrics", platform |-> TRUE,
     metrics |-> [m \in (IF a = << >> THEN {} ELSE {DriftMetricA})
                         \cup (IF b = << >> THEN {} ELSE {DriftMetricB}) |->
                     IF m = DriftMetricA THEN a[1] ELSE b[1]]]

HistorySamples ==
    {MetricsDoc(DriftDoc(a, b)) :
        a \in Optional(HistoryValuesA), b \in Optional(HistoryValuesB)}

InitDrift ==
    /\ MainIdle
    /\ \E a \in Optional(CurrentValuesA), b \in Optional(CurrentValuesB) :
         \E n \in 0..MaxSamples :
           \E history \in [1..n -> HistorySamples] :
             arg = [current |-> DriftDoc(a, b), history |-> history]
    /\ ret = Pending

CallCalculateDrift ==
    /\ ~ret.done
    /\ ret' = Returned(calculate_drift(arg.current, arg.history))
    /\ UNCHANGED <<mainVars, arg>>

NextDrift == CallCalculateDrift

SpecDrift == InitDrift /\ [][NextDrift]_vars

(***************************************************************************)
(* SpecStore / SpecStoreFaulty: _record_gate_result called MaxAppends      *)
(* times, one call after the other, on a store that is new or holds        *)
(* records of earlier invocations up to the cap.  In SpecStoreFaulty the   *)
(* reads and writes of the store file may raise.                           *)
(***************************************************************************)
\* the store as n earlier invocations left it: one record per tick
EarlierRuns(n) ==
    [i \in 1..n |->
        NewResult(i, IF i % 2 = 0 THEN "sku-a" ELSE "sku-b", i, i % 3 # 0, Nominal)]

InitStoreWith(faulty) ==
    /\ procs = {} /\ started = 0
    /\ env = [NoEnv EXCEPT !.faults = faulty]
    /\ pc = << >> /\ args = << >> /\ results = << >> /\ gate_info = << >>
    /\ retval = << >> /\ locals = << >> /\ calls = << >> /\ exit_code = << >>
    /\ \E n \in {0} \cup ((MaxHistoryRuns - 2)..MaxHistoryRuns) :
         /\ file = IF n = 0 THEN AbsentFile ELSE OkFile(EarlierRuns(n))
         /\ clock = n
    /\ arg = << >>
    /\ ret = Pending

\* one whole call _record_gate_result(sku, sha, gate_passed, res): load, append,
\* cap, save.  arg' is the new_result it builds, ret' the history it loaded.
RecordGateResult ==
    /\ started < MaxAppends
    /\ \E sku \in Skus, gate_passed \in BOOLEAN, dt \in 1..2 :
         \E readable \in ReadOutcomes, outcome \in WriteOutcomes :
           LET history == _load_local_gate_history(file, readable)
               new_result == NewResult(clock + dt, sku, clock + dt, gate_passed, Nominal)
               saved == [runs |-> AppendCapped(history.runs, new_result)]
           IN  /\ clock' = clock + dt
               /\ file' = _save_local_gate_history(file, saved, outcome)
               /\ arg' = new_result
               /\ ret' = Returned(history)
    /\ started' = started + 1
    /\ UNCHANGED <<procs, env, pc, args, results, gate_info, retval, locals,
                   calls, exit_code>>

NextStore == RecordGateResult

SpecStore == InitStoreWith(FALSE) /\ [][NextStore]_vars

SpecStoreFaulty == InitStoreWith(TRUE) /\ [][NextStore]_vars

(***************************************************************************)
(* SpecShared: _record_gate_result called MaxAppends times on the one      *)
(* store file all configurations share, as earlier invocations left it at  *)
(* or just below the cap: two invocations of sku-a, then only sku-b.       *)
(***************************************************************************)
\* one record per tick; g gives the decisions of the two sku-a invocations
SharedRuns(n, g) ==
    [i \in 1..n |->
        IF i <= 2 THEN NewResult(i, "sku-a", i, g[i], Nominal)
        ELSE NewResult(i, "sku-b", i, i % 3 # 0, Nominal)]

InitShared ==
    /\ procs = {} /\ started = 0
    /\ env = NoEnv
    /\ pc = << >> /\ args = << >> /\ results = << >> /\ gate_info = << >>
    /\ retval = << >> /\ locals = << >> /\ calls = << >> /\ exit_code = << >>
    /\ \E n \in (MaxHistoryRuns - 2)..MaxHistoryRuns, g \in [1..2 -> BOOLEAN] :
         /\ file = OkFile(SharedRuns(n, g))
         /\ clock = n
    /\ arg = << >>
    /\ ret = Pending

SpecShared == InitShared /\ [][NextStore]_vars

(***************************************************************************)
(* main(): the invocations of the gate.  Spec runs them one after the      *)
(* other, SpecConcurrent runs two at the same time after earlier ones.     *)
(***************************************************************************)
\* gate_info as should_pass_gate first builds it (lines 325-331)
GateInfoInit ==
    [critical_metrics_pass |-> FALSE, drift_check_pass |-> FALSE,
     consecutive_passes |-> 0, gate_decision |-> FALSE, reason |-> << >>]

NoDrift == [raised |-> FALSE, pass |-> FALSE, violations |-> << >>]

LocalsInit ==
    [historical_results |-> << >>, drift |-> NoDrift, consecutive_passes |-> 0,
     history |-> [runs |-> << >>], new_result |-> << >>]

\* the reason of a critical failure (line 339)
CriticalReason(failures) == <<"Critical metrics failed: ", failures>>

\* a decision that leaves the consecutive passes out: critical AND drift
GateDecisionWithoutOverride(critical_pass, drift, consecutive_count) ==
    IF critical_pass /\ drift.pass
    THEN [decision |-> TRUE,
          reason |-> <<"Gate PASS: Critical metrics pass, drift <= ",
                       drift_threshold_percent, "%">>]
    ELSE [decision |-> FALSE, reason |-> <<"Gate FAIL: ", << >> >>]

\* a rejection whose reason names the drift failure without the drifting
\* metrics and without the passes counted
GateDecisionBareFailure(critical_pass, drift, consecutive_count) ==
    IF critical_pass /\ (drift.pass \/ consecutive_count >= consecutive_passes_required)
    THEN [decision |-> TRUE,
          reason |-> IF drift.pass
                     THEN <<"Gate PASS: Critical metrics pass, drift <= ",
                            drift_threshold_percent, "%">>
                     ELSE <<"Gate PASS: Critical metrics pass, ",
                            consecutive_count, " consecutive passes">>]
    ELSE [decision |-> FALSE,
          reason |-> <<"Gate FAIL: ",
              << <<"drift > ", drift_threshold_percent, "%">> >> >>]

\* a decision that names the consecutive passes whenever there are enough of
\* them, also when the drift check passed
GateDecisionStreakFirst(critical_pass, drift, consecutive_count) ==
    IF critical_pass /\ (drift.pass \/ consecutive_count >= consecutive_passes_required)
    THEN [decision |-> TRUE,
          reason |-> IF consecutive_count >= consecutive_passes_required
                     THEN <<"Gate PASS: Critical metrics pass, ",
                            consecutive_count, " consecutive passes">>
                     ELSE <<"Gate PASS: Critical metrics pass, drift <= ",
                            drift_threshold_percent, "%">>]
    ELSE [decision |-> FALSE,
          reason |-> <<"Gate FAIL: ",
              << <<"drift > ", drift_threshold_percent, "% (",
                   drift.violations, ") and only ", consecutive_count,
                   "/", consecutive_passes_required,
                   " consecutive passes">> >> >>]

\* lines 354-371: the decision from the three signals; [decision, reason]
GateDecision(critical_pass, drift, consecutive_count) ==
    IF critical_pass /\ (drift.pass \/ consecutive_count >= consecutive_passes_required)
    THEN [decision |-> TRUE,
          reason |-> IF drift.pass
                     THEN <<"Gate PASS: Critical metrics pass, drift <= ",
                            drift_threshold_percent, "%">>
                     ELSE <<"Gate PASS: Critical metrics pass, ",
                            consecutive_count, " consecutive passes">>]
    ELSE [decision |-> FALSE,
          reason |-> <<"Gate FAIL: ",
              (IF ~critical_pass THEN <<"critical metrics failed">> ELSE << >>)
              \o (IF ~drift.pass /\ consecutive_count < consecutive_passes_required
                  THEN << <<"drift > ", drift_threshold_percent, "% (",
                            drift.violations, ") and only ", consecutive_count,
                            "/", consecutive_passes_required,
                            " consecutive passes">> >>
                  ELSE << >>)>>]

InitMain(ps, earlier, e) ==
    /\ procs = ps
    /\ started = earlier
    /\ clock = earlier
    /\ file = IF earlier = 0 THEN AbsentFile ELSE OkFile(EarlierRuns(earlier))
    /\ env = e
    /\ pc = [p \in ps |-> "idle"]
    /\ args = [p \in ps |-> [sku |-> "sku-a", sha |-> 0]]
    /\ results = [p \in ps |-> Nominal]
    /\ gate_info = [p \in ps |-> GateInfoInit]
    /\ retval = [p \in ps |-> Pending]
    /\ locals = [p \in ps |-> LocalsInit]
    /\ calls = [p \in ps |-> << >>]
    /\ exit_code = [p \in ps |-> -1]
    /\ arg = << >>
    /\ ret = Pending

\* the process is started: main() up to the call of load_slo_results
Invoke(p) ==
    /\ pc[p] \in {"idle", "exited", "crashed"}
    /\ started < MaxInvocations
    /\ started' = started + 1
    /\ \E sku \in Skus : args' = [args EXCEPT ![p] = [sku |-> sku, sha |-> started + 1]]
    /\ pc' = [pc EXCEPT ![p] = "load_slo_results"]
    /\ gate_info' = [gate_info EXCEPT ![p] = GateInfoInit]
    /\ retval' = [retval EXCEPT ![p] = Pending]
    /\ locals' = [locals EXCEPT ![p] = LocalsInit]
    /\ calls' = [calls EXCEPT ![p] = << >>]
    /\ exit_code' = [exit_code EXCEPT ![p] = -1]
    /\ UNCHANGED <<procs, clock, file, env, results, arg, ret>>

\* an except branch that prints the failure and returns None instead of
\* leaving the process
LoadSloResultsReturnsNone(p) ==
    /\ pc[p] = "load_slo_results"
    /\ \E loaded \in BOOLEAN :
         IF loaded
         THEN \E doc \in env.docs : results' = [results EXCEPT ![p] = doc]
         ELSE results' = [results EXCEPT ![p] =
                             [kind |-> "none", platform |-> FALSE, metrics |-> NoMetrics]]
    /\ pc' = [pc EXCEPT ![p] = "should_pass_gate"]
    /\ UNCHANGED <<procs, started, clock, file, env, args, gate_info, retval,
                   locals, calls, exit_code, arg, ret>>

\* load_slo_results (lines 120-127): the document, or sys.exit(1)
LoadSloResults(p) ==
    /\ pc[p] = "load_slo_results"
    /\ \E loaded \in BOOLEAN :
         IF loaded
         THEN /\ \E doc \in env.docs : results' = [results EXCEPT ![p] = doc]
              /\ pc' = [pc EXCEPT ![p] = "should_pass_gate"]
              /\ UNCHANGED exit_code
         ELSE /\ pc' = [pc EXCEPT ![p] = "exited"]
              /\ exit_code' = [exit_code EXCEPT ![p] = 1]
              /\ UNCHANGED results
    /\ UNCHANGED <<procs, started, clock, file, env, args, gate_info, retval,
                   locals, calls, arg, ret>>

\* an uncaught exception: traceback, exit status 1
Crash(p) ==
    /\ pc' = [pc EXCEPT ![p] = "crashed"]
    /\ exit_code' = [exit_code EXCEPT ![p] = 1]

\* a critical check whose failure is noted but does not return early
AfterCriticalCheckNoReturn(info, critical) ==
    [returns |-> FALSE,
     gate_info |-> [info EXCEPT !.critical_metrics_pass = critical[1]]]

\* what should_pass_gate does once check_critical_metrics returned critical
\* (lines 335-340): [returns, gate_info]
AfterCriticalCheck(info, critical) ==
    IF ~critical[1]
    THEN [returns |-> TRUE,
          gate_info |-> [info EXCEPT !.critical_metrics_pass = critical[1],
                                     !.gate_decision = FALSE,
                                     !.reason = CriticalReason(critical[2])]]
    ELSE [returns |-> FALSE,
          gate_info |-> [info EXCEPT !.critical_metrics_pass = critical[1]]]

\* should_pass_gate, lines 325-340: the critical check and the early return
CheckCritical(p) ==
    /\ pc[p] = "should_pass_gate"
    /\ calls' = [calls EXCEPT ![p] = Append(@, "check_critical_metrics")]
    /\ IF results[p].kind # "metrics"
       THEN /\ Crash(p)
            /\ UNCHANGED <<gate_info, retval>>
       ELSE LET after == AfterCriticalCheck(gate_info[p],
                                            check_critical_metrics(results[p]))
            IN  /\ gate_info' = [gate_info EXCEPT ![p] = after.gate_info]
                /\ IF after.returns
                   THEN /\ retval' = [retval EXCEPT ![p] =
                               Returned([should_pass |-> FALSE,
                                         reason |-> after.gate_info.reason,
                                         gate_info |-> after.gate_info])]
                        /\ pc' = [pc EXCEPT ![p] = "_record_gate_result"]
                   ELSE /\ pc' = [pc EXCEPT ![p] = "get_historical_results"]
                        /\ UNCHANGED retval
                /\ UNCHANGED exit_code
    /\ UNCHANGED <<procs, started, clock, file, env, args, results, locals, arg, ret>>

\* should_pass_gate, lines 343-347: the history fetch and the drift analysis
CheckDrift(p) ==
    /\ pc[p] = "get_historical_results"
    /\ calls' = [calls EXCEPT ![p] = @ \o <<"get_historical_results", "calculate_drift">>]
    /\ \E response \in env.responses :
         LET historical == get_historical_results(response)
             drift == calculate_drift(results[p], historical)
         IN  /\ locals' = [locals EXCEPT ![p].historical_results = historical,
                                         ![p].drift = drift]
             /\ IF drift.raised
                THEN /\ Crash(p)
                     /\ UNCHANGED gate_info
                ELSE /\ gate_info' = [gate_info EXCEPT ![p].drift_check_pass = drift.pass]
                     /\ pc' = [pc EXCEPT ![p] = "check_consecutive_passes"]
                     /\ UNCHANGED exit_code
    /\ UNCHANGED <<procs, started, clock, file, env, args, results, retval, arg, ret>>

\* a fallback that is taken whatever the remote count is: the local count
\* replaces a remote count above zero
CountGithubAlwaysFallsBack(p) ==
    /\ pc[p] = "check_consecutive_passes"
    /\ calls' = [calls EXCEPT ![p] =
                    @ \o <<"check_consecutive_passes", "_check_consecutive_passes_github">>]
    /\ \E response \in env.count_responses :
         locals' = [locals EXCEPT ![p].consecutive_passes =
                       _check_consecutive_passes_github(response)]
    /\ pc' = [pc EXCEPT ![p] = "_check_consecutive_passes_local"]
    /\ UNCHANGED <<procs, started, clock, file, env, args, results, gate_info,
                   retval, exit_code, arg, ret>>

\* check_consecutive_passes, line 245: the remote count
CountGithub(p) ==
    /\ pc[p] = "check_consecutive_passes"
    /\ calls' = [calls EXCEPT ![p] =
                    @ \o <<"check_consecutive_passes", "_check_consecutive_passes_github">>]
    /\ \E response \in env.count_responses :
         LET consecutive_passes == _check_consecutive_passes_github(response)
         IN  /\ locals' = [locals EXCEPT ![p].consecutive_passes = consecutive_passes]
             /\ pc' = [pc EXCEPT ![p] = IF consecutive_passes = 0
                                        THEN "_check_consecutive_passes_local"
                                        ELSE "decide"]
    /\ UNCHANGED <<procs, started, clock, file, env, args, results, gate_info,
                   retval, exit_code, arg, ret>>

\* check_consecutive_passes, lines 248-249: the local fallback
CountLocal(p) ==
    /\ pc[p] = "_check_consecutive_passes_local"
    /\ calls' = [calls EXCEPT ![p] = Append(@, "_check_consecutive_passes_local")]
    /\ \E readable \in ReadOutcomes :
         locals' = [locals EXCEPT ![p].consecutive_passes =
                       _check_consecutive_passes_local(args[p].sku, file, readable)]
    /\ pc' = [pc EXCEPT ![p] = "decide"]
    /\ UNCHANGED <<procs, started, clock, file, env, args, results, gate_info,
                   retval, exit_code, arg, ret>>

\* should_pass_gate, lines 350-371: the decision and the return
Decide(p) ==
    /\ pc[p] = "decide"
    /\ LET consecutive_count == locals[p].consecutive_passes
           d == GateDecision(gate_info[p].critical_metrics_pass, locals[p].drift,
                             consecutive_count)
           info == [gate_info[p] EXCEPT !.consecutive_passes = consecutive_count,
                                        !.gate_decision = d.decision,
                                        !.reason = d.reason]
       IN  /\ gate_info' = [gate_info EXCEPT ![p] = info]
           /\ retval' = [retval EXCEPT ![p] =
                  Returned([should_pass |-> d.decision, reason |-> d.reason,
                            gate_info |-> info])]
    /\ pc' = [pc EXCEPT ![p] = "_record_gate_result"]
    /\ UNCHANGED <<procs, started, clock, file, env, args, results, locals,
                   calls, exit_code, arg, ret>>

\* _record_gate_result, lines 101-116: load the store, build and append the
\* record, cut to the last 50
RecordLoad(p) ==
    /\ pc[p] = "_record_gate_result"
    /\ calls' = [calls EXCEPT ![p] = Append(@, "_record_gate_result")]
    /\ \E readable \in ReadOutcomes, dt \in 1..2 :
         LET history == _load_local_gate_history(file, readable)
             new_result == NewResult(clock + dt, args[p].sku, args[p].sha,
                                     retval[p].value.should_pass, results[p])
         IN  /\ clock' = clock + dt
             /\ locals' = [locals EXCEPT
                    ![p].new_result = new_result,
                    ![p].history = [runs |-> AppendCapped(history.runs, new_result)]]
    /\ pc' = [pc EXCEPT ![p] = "save_open"]
    /\ UNCHANGED <<procs, started, file, env, args, results, gate_info, retval,
                   exit_code, arg, ret>>

\* _save_local_gate_history, line 94: open(.., 'w') truncates the file
SaveOpen(p) ==
    /\ pc[p] = "save_open"
    /\ \E outcome \in WriteOutcomes \ {"write_fails"} :
         IF outcome = "ok"
         THEN /\ file' = PartialFile
              /\ pc' = [pc EXCEPT ![p] = "save_write"]
         ELSE /\ file' = file
              /\ pc' = [pc EXCEPT ![p] = "generate_report"]
    /\ UNCHANGED <<procs, started, clock, env, args, results, gate_info, retval,
                   locals, calls, exit_code, arg, ret>>

\* the file after this process writes its document from offset 0 and closes:
\* its own document, or, when another process wrote a document after this
\* one's truncation, possibly that document's tail behind it (not JSON)
Written(f, history) ==
    IF f.kind = "ok" /\ f.runs # history.runs
    THEN {OkFile(history.runs), PartialFile}
    ELSE {OkFile(history.runs)}

\* _save_local_gate_history, line 95: json.dump and close
SaveWrite(p) ==
    /\ pc[p] = "save_write"
    /\ \E outcome \in WriteOutcomes \ {"open_fails"} :
         IF outcome = "ok"
         THEN file' \in Written(file, locals[p].history)
         ELSE file' = file
    /\ pc' = [pc EXCEPT ![p] = "generate_report"]
    /\ UNCHANGED <<procs, started, clock, env, args, results, gate_info, retval,
                   locals, calls, exit_code, arg, ret>>

\* main, lines 478-479: the tip printed behind the reason, or nothing
Tip(info) ==
    IF ~info.drift_check_pass /\ info.consecutive_passes < consecutive_passes_required
    THEN <<"Tip: Need ", consecutive_passes_required - info.consecutive_passes,
           " more consecutive passes to override drift check">>
    ELSE << >>

\* main, lines 461-487: the report, the summary and the exit status
ReportAndExit(p) ==
    /\ pc[p] = "generate_report"
    /\ calls' = [calls EXCEPT ![p] = Append(@, "generate_report")]
    /\ IF ~results[p].platform
       THEN Crash(p)
       ELSE /\ pc' = [pc EXCEPT ![p] = "exited"]
            /\ exit_code' = [exit_code EXCEPT ![p] =
                   IF retval[p].value.should_pass THEN 0 ELSE 1]
    /\ UNCHANGED <<procs, started, clock, file, env, args, results, gate_info,
                   retval, locals, arg, ret>>

Next ==
    \/ \E p \in procs : Invoke(p)
    \/ \E p \in procs : LoadSloResults(p)
    \/ \E p \in procs : CheckCritical(p)
    \/ \E p \in procs : CheckDrift(p)
    \/ \E p \in procs : CountGithub(p)
    \/ \E p \in procs : CountLocal(p)
    \/ \E p \in procs : Decide(p)
    \/ \E p \in procs : RecordLoad(p)
    \/ \E p \in procs : SaveOpen(p)
    \/ \E p \in procs : SaveWrite(p)
    \/ \E p \in procs : ReportAndExit(p)

Init == InitMain({1}, 0, MainEnv)

Spec == Init /\ [][Next]_vars

\* two invocations at the same time, after MaxInvocations - 2 earlier ones
ConcurrentListings ==
    { [ok |-> FALSE, runs |-> << >>],
      [ok |-> TRUE, runs |-> <<GoodRun(Nominal), GoodRun(Nominal)>>] }

ConcurrentEnv ==
    [faults |-> FALSE, docs |-> {Nominal, Bad}, responses |-> ConcurrentListings,
     count_responses |-> ConcurrentListings]

InitConcurrent == InitMain({1, 2}, MaxInvocations - 2, ConcurrentEnv)

SpecConcurrent == InitConcurrent /\ [][Next]_vars

(***************************************************************************)
(* SpecInput: the invocations of main(), one after the other, on           *)
(* measurement files that are JSON but lack one of the two top-level keys. *)
(***************************************************************************)
\* a measurement document without the 'platform' key
NoPlatform == [Nominal EXCEPT !.platform = FALSE]

\* a measurement document without the 'metrics' key
NoMetricsKey == [kind |-> "nometrics", platform |-> TRUE, metrics |-> NoMetrics]

InputListings ==
    { [ok |-> FALSE, runs |-> << >>],
      [ok |-> TRUE, runs |-> <<GoodRun(Nominal)>>] }

InputEnv ==
    [faults |-> FALSE, docs |-> {Nominal, NoPlatform, NoMetricsKey},
     responses |-> InputListings, count_responses |-> InputListings]

SpecInput == InitMain({1}, 0, InputEnv) /\ [][Next]_vars

(***************************************************************************)
(* SpecRemote: one invocation of main() in which the answer of the remote  *)
(* provider to each of the two run listings and the store the invocation   *)
(* finds are fixed when it starts, so that every state tells what the      *)
(* provider answered.                                                      *)
(***************************************************************************)
\* a successful SLO run whose artifact listing is answered as given
RunAnswering(artifacts) == [GoodRun(Nominal) EXCEPT !.artifacts = artifacts]

\* a successful SLO run whose matching artifact holds a document of that kind
RunHolding(kind) == [GoodRun(Nominal) EXCEPT !.doc = Doc(kind)]

ListingFails == [ok |-> FALSE, runs |-> << >>]

Listing(runs) == [ok |-> TRUE, runs |-> runs]

HistoryResponses ==
    { ListingFails,
      Listing(<<GoodRun(Nominal)>>),
      Listing(<<GoodRun(Nominal), RunAnswering("raise")>>),
      Listing(<<RunAnswering("status"), GoodRun(Nominal)>>),
      Listing(<<RunHolding("none"), GoodRun(Nominal)>>),
      Listing(<<RunHolding("empty"), GoodRun(Nominal)>>),
      Listing(<<RunHolding("nondict"), GoodRun(Nominal)>>),
      Listing(<<RunHolding("nometrics"), GoodRun(Nominal)>>) }

CountResponses ==
    { ListingFails,
      Listing(<< >>),
      Listing(<<GoodRun(Nominal)>>),
      Listing(<<GoodRun(Nominal), RunAnswering("raise")>>),
      Listing(<<GoodRun(Nominal), RunAnswering("status")>>),
      Listing(<<GoodRun(Nominal), GoodRun(Nominal)>>) }

\* record i of a store found at the start, written at tick t
StoredRun(i, t, sku, gate_passed) == NewResult(t, sku, 0 - i, gate_passed, Nominal)

\* two passes of sku-a around a failure of sku-b
TwoPasses ==
    << StoredRun(1, 1, "sku-a", TRUE), StoredRun(2, 2, "sku-b", FALSE),
       StoredRun(3, 3, "sku-a", TRUE) >>

\* a failure of sku-a written on a full second, then two passes of sku-a
PassesAfterFailure ==
    << StoredRun(1, TicksPerSecond, "sku-a", FALSE),
       StoredRun(2, TicksPerSecond + 1, "sku-a", TRUE),
       StoredRun(3, 2 * TicksPerSecond + 1, "sku-a", TRUE) >>

RemoteStores == {AbsentFile, OkFile(TwoPasses), OkFile(PassesAfterFailure)}

InitRemote ==
    \E response \in HistoryResponses, count_response \in CountResponses,
       f \in RemoteStores :
        /\ procs = {1}
        /\ started = MaxInvocations - 1
        /\ clock = 2 * TicksPerSecond + 1
        /\ file = f
        /\ env = [faults |-> FALSE, docs |-> {Nominal, Low},
                  responses |-> {response}, count_responses |-> {count_response}]
        /\ pc = [p \in {1} |-> "idle"]
        /\ args = [p \in {1} |-> [sku |-> "sku-a", sha |-> 0]]
        /\ results = [p \in {1} |-> Nominal]
        /\ gate_info = [p \in {1} |-> GateInfoInit]
        /\ retval = [p \in {1} |-> Pending]
        /\ locals = [p \in {1} |-> LocalsInit]
        /\ calls = [p \in {1} |-> << >>]
        /\ exit_code = [p \in {1} |-> -1]
        /\ arg = << >>
        /\ ret = Pending

SpecRemote == InitRemote /\ [][Next]_vars

(***************************************************************************)
(* SpecStreak: the invocations of main(), one after the other, when the    *)
(* remote count is always zero and the one historical sample is Nominal,   *)
(* so that a Nominal measurement passes the drift check and a Low one      *)
(* drifts on every critical metric.  The store is new, or holds the record *)
(* of one earlier invocation of sku-a that measured Low against an empty   *)
(* store and was rejected, written when the clock was on a full second.    *)
(***************************************************************************)
\* the record of the earlier, rejected invocation
EarlierRejection == NewResult(TicksPerSecond, "sku-a", 0, FALSE, Low)

StreakStores == {AbsentFile, OkFile(<<EarlierRejection>>)}

StreakEnv ==
    [faults |-> FALSE, docs |-> {Nominal, Low, Bad},
     responses |-> {Listing(<<GoodRun(Nominal)>>)},
     count_responses |-> {ListingFails, Listing(<< >>)}]

InitStreak ==
    \E f \in StreakStores :
        /\ procs = {1}
        /\ started = 0
        /\ clock = IF f = AbsentFile THEN 0 ELSE TicksPerSecond
        /\ file = f
        /\ env = StreakEnv
        /\ pc = [p \in {1} |-> "idle"]
        /\ args = [p \in {1} |-> [sku |-> "sku-a", sha |-> 0]]
        /\ results = [p \in {1} |-> Nominal]
        /\ gate_info = [p \in {1} |-> GateInfoInit]
        /\ retval = [p \in {1} |-> Pending]
        /\ locals = [p \in {1} |-> LocalsInit]
        /\ calls = [p \in {1} |-> << >>]
        /\ exit_code = [p \in {1} |-> -1]
        /\ arg = << >>
        /\ ret = Pending

SpecStreak == InitStreak /\ [][Next]_vars

(***************************************************************************)
(* Properties of the invocations of main() (Spec, SpecConcurrent).         *)
(***************************************************************************)
\* the critical check of the document invocation p loaded, from the table
CriticalOk(p) ==
    \A m \in CriticalSet :
        m \in DOMAIN results[p].metrics /\ results[p].metrics[m] <= critical_metrics[m]

Decided(p) == retval[p].done

ShouldPass(p) == retval[p].value.should_pass

\* the positions of the store that hold the record of invocation p
OwnRecords(p) == {i \in 1..Len(file.runs) : file.runs[i].sha = args[p].sha}

\* C1: the decision should_pass_gate returns is true exactly when the critical
\* check passes and (the drift check passes or the consecutive-pass count is
\* at least 2); it is never true when a critical metric failed.
C1_DecisionIsCriticalAndDriftOrStreak ==
    \A p \in procs :
        Decided(p) =>
            /\ ShouldPass(p) <=>
                   /\ CriticalOk(p)
                   /\ \/ locals[p].drift.pass
                      \/ locals[p].consecutive_passes >= consecutive_passes_required
            /\ ShouldPass(p) => CriticalOk(p)
            /\ retval[p].value.gate_info.gate_decision = ShouldPass(p)

\* an acceptance through the override: drift failed, two consecutive passes
C1_Witness ==
    \E p \in procs :
        /\ Decided(p)
        /\ ShouldPass(p)
        /\ "calculate_drift" \in Range(calls[p])
        /\ ~locals[p].drift.pass
        /\ locals[p].consecutive_passes >= consecutive_passes_required

SignalMethods ==
    {"get_historical_results", "calculate_drift", "check_consecutive_passes",
     "_check_consecutive_passes_github", "_check_consecutive_passes_local"}

\* C2: when the critical check fails, should_pass_gate returns false at once:
\* the history fetch, the drift analysis and the consecutive-pass counters are
\* never invoked in that invocation, and the returned gate_info has
\* drift_check_pass = false and consecutive_passes = 0.
C2_CriticalFailureShortCircuits ==
    \A p \in procs :
        (Decided(p) /\ ~CriticalOk(p)) =>
            /\ ~ShouldPass(p)
            /\ Range(calls[p]) \cap SignalMethods = {}
            /\ ~retval[p].value.gate_info.critical_metrics_pass
            /\ ~retval[p].value.gate_info.drift_check_pass
            /\ retval[p].value.gate_info.consecutive_passes = 0

\* an invocation rejected for its critical metrics that ran to its exit
C2_Witness ==
    \E p \in procs :
        /\ pc[p] = "exited"
        /\ Decided(p)
        /\ ~CriticalOk(p)
        /\ calls[p] = <<"check_critical_metrics", "_record_gate_result", "generate_report">>

\* C3: two invocations running at the same time on one store file serialize
\* their read-modify-write appends: once both have finished, the store holds
\* the records of both and every record it held before them.
C3_ConcurrentAppendsAreSerialized ==
    (\A p \in procs : pc[p] = "exited" /\ Decided(p)) =>
        /\ file.kind = "ok"
        /\ \A p \in procs : OwnRecords(p) # {}
        /\ \A r \in Range(EarlierRuns(MaxInvocations - 2)) : r \in Range(file.runs)

WithinThreshold(metrics, m) ==
    m \in DOMAIN metrics /\ metrics[m] <= critical_metrics[m]

AboveThreshold(metrics, m) ==
    m \in DOMAIN metrics /\ metrics[m] > critical_metrics[m]

NamedInFailures(failures, m) == \E i \in 1..Len(failures) : failures[i][2] = m

\* C7: check_critical_metrics passes exactly when every metric of the critical
\* table is present with a value less than or equal to its threshold (equality
\* passes); every critical metric strictly above its threshold makes the check
\* fail and has its name in the failure list.
C7_CriticalPassIffWithinThresholds ==
    ret.done =>
        /\ ret.value[1] <=> \A m \in CriticalSet : WithinThreshold(arg.metrics, m)
        /\ \A m \in CriticalSet :
             AboveThreshold(arg.metrics, m) =>
                 ~ret.value[1] /\ NamedInFailures(ret.value[2], m)

\* a passing check in which some metric sits exactly on its threshold
C7_Witness ==
    /\ ret.done
    /\ ret.value[1]
    /\ \E m \in CriticalSet :
         m \in DOMAIN arg.metrics /\ arg.metrics[m] = critical_metrics[m]

\* table positions whose metric is missing or above its threshold
OffendingPositions(metrics) ==
    {i \in 1..Len(CriticalNames) :
        \/ CriticalNames[i] \notin DOMAIN metrics
        \/ AboveThreshold(metrics, CriticalNames[i])}

\* the j-th smallest element of a set of positions
NthPosition(S, j) == CHOOSE i \in S : Cardinality({x \in S : x <= i}) = j

\* C8: a critical metric absent from the current set always fails the check
\* with a missing-metric failure, whatever the other values are; the failure
\* list holds exactly one entry per missing or violating critical metric, in
\* critical-table order.
C8_OneFailurePerOffendingMetricInTableOrder ==
    ret.done =>
        LET failures == ret.value[2]
            bad == OffendingPositions(arg.metrics)
        IN  /\ Len(failures) = Cardinality(bad)
            /\ \A j \in 1..Len(failures) :
                 LET metric == CriticalNames[NthPosition(bad, j)]
                 IN  /\ failures[j][2] = metric
                     /\ failures[j][1] = "Missing critical metric: "
                            <=> metric \notin DOMAIN arg.metrics
            /\ (\E m \in CriticalSet : m \notin DOMAIN arg.metrics) => ~ret.value[1]

\* a missing metric reported together with a violation of a later table entry
C8_Witness ==
    /\ ret.done
    /\ \E i, j \in 1..Len(CriticalNames) :
         /\ i < j
         /\ CriticalNames[i] \notin DOMAIN arg.metrics
         /\ AboveThreshold(arg.metrics, CriticalNames[j])
         /\ \A k \in 1..Len(CriticalNames) :
              k \notin {i, j} => WithinThreshold(arg.metrics, CriticalNames[k])
    /\ Len(ret.value[2]) = 2
    /\ ret.value[2][1][1] = "Missing critical metric: "
    /\ ret.value[2][2][1] = "SLO violation: "

(***************************************************************************)
(* Properties of the Run History Store (SpecStore, SpecStoreFaulty).       *)
(***************************************************************************)
\* a call of _record_gate_result has just been made
Recorded == started' = started + 1

\* C5: after any sequence of _record_gate_result calls, for any mix of
\* configuration ids, the store holds at most 50 records; a record appended
\* to a store of 50 evicts the oldest one and is the last entry.
C5_CapAtFiftyEvictsOldest ==
    /\ [](Len(file.runs) <= MaxHistoryRuns)
    /\ [][Recorded =>
            /\ file'.kind = "ok"
            /\ Last(file'.runs) = arg'
            /\ Len(file.runs) = MaxHistoryRuns =>
                   file'.runs = Append(Tail(file.runs), arg')]_vars

\* a full store after a call that evicted the oldest record it held
C5_Witness ==
    /\ started >= 1
    /\ Len(file.runs) = MaxHistoryRuns
    /\ Len(ret.value.runs) = MaxHistoryRuns
    /\ file.runs[1] = ret.value.runs[2]
    /\ Last(file.runs) = arg

\* C6: the store is append-only apart from the cap: after each record
\* operation the stored sequence is the last 50 entries of the sequence stored
\* before followed by the new record, also when loading or saving fails.
C6_AppendOnlyApartFromCap ==
    [][Recorded =>
          /\ file'.kind = "ok"
          /\ file'.runs = LastN(Append(file.runs, arg'), MaxHistoryRuns)]_vars

(***************************************************************************)
(* Properties of _check_consecutive_passes_local (SpecLocal).              *)
(***************************************************************************)
\* the instant a stored timestamp denotes
TickOf(ts) == CHOOSE t \in 0..MaxStoreTick : Timestamp(t) = ts

\* the records of sku written at or after record i of runs
AtOrAfter(runs, sku, i) ==
    {j \in 1..Len(runs) :
        /\ runs[j].sku = sku
        /\ TickOf(runs[j].timestamp) >= TickOf(runs[i].timestamp)}

\* the length of the longest run of passing records at the newest end of the
\* records of sku
NewestStreak(runs, sku) ==
    LET own == {i \in 1..Len(runs) : runs[i].sku = sku}
        AllPassed(n) ==
            \A i \in own :
                Cardinality(AtOrAfter(runs, sku, i)) <= n => runs[i].gate_passed
        streaks == {n \in 0..Cardinality(own) : AllPassed(n)}
    IN  CHOOSE n \in streaks : \A k \in streaks : k <= n

\* C9: the local consecutive-pass count of a configuration is the length of
\* the longest run of gate_passed records at the newest end of that
\* configuration's records, newest first by timestamp; records of other
\* configurations are ignored and counting never resumes past a failure.
C9_LocalCountIsNewestStreak ==
    ret.done => ret.value = NewestStreak(arg.file.runs, arg.sku)

(***************************************************************************)
(* Properties of _check_consecutive_passes_github (SpecGithub).            *)
(***************************************************************************)
SloRuns(runs) == SelectSeq(runs, LAMBDA run : run.name_slo)

Counted(run) == run.conclusion = "success" /\ run.artifacts = "match"

\* number of leading runs of s that are counted
LeadingCounted(s) ==
    LET ok == {n \in 0..Len(s) : \A i \in 1..n : Counted(s[i])}
    IN  CHOOSE n \in ok : \A k \in ok : k <= n

\* the SLO run the walk ends at raised while its artifacts were requested
EndsInRaise(s) ==
    LET n == LeadingCounted(s)
    IN  /\ n < Len(s)
        /\ s[n + 1].conclusion = "success"
        /\ s[n + 1].artifacts = "raise"

\* C10 as stated: the walk skips runs that are not SLO runs, counts each SLO
\* run that succeeded and has a matching artifact, and stops at the first SLO
\* run that failed, whose artifact listing is not retrievable or that has no
\* matching artifact, keeping the count reached there.
C10_WalkStopsAtFirstUncountedRun ==
    (ret.done /\ arg.ok) => ret.value = LeadingCounted(SloRuns(arg.runs))

\* C10 amended: as stated when the run the walk stops at failed, answered its
\* artifact listing with a status other than 200 or lists no matching
\* artifact; when the artifact request of that run raises, the walk is
\* abandoned and the count is 0.
C10_WalkStopsOrIsAbandoned ==
    (ret.done /\ arg.ok) =>
        ret.value = IF EndsInRaise(SloRuns(arg.runs))
                    THEN 0
                    ELSE LeadingCounted(SloRuns(arg.runs))

\* a run that is not an SLO run is passed over, the SLO run behind it is
\* counted, and the failed SLO run behind that ends the walk
C10_Witness ==
    /\ ret.done
    /\ arg.ok
    /\ Len(arg.runs) = 3
    /\ ~arg.runs[1].name_slo
    /\ arg.runs[2].name_slo /\ Counted(arg.runs[2])
    /\ arg.runs[3].name_slo /\ arg.runs[3].conclusion = "failure"
    /\ ret.value = 1

(***************************************************************************)
(* Properties of the remote strategies inside main() (SpecRemote).         *)
(***************************************************************************)
\* what the provider answers to the listing of the history fetch and to the
\* listing of the remote count in this behaviour
HistoryResponse == CHOOSE r \in env.responses : TRUE

CountResponse == CHOOSE r \in env.count_responses : TRUE

\* check_consecutive_passes has returned in invocation p and its record is
\* not written yet
CountReturned(p) == pc[p] \in {"decide", "_record_gate_result"}

\* C11: check_consecutive_passes returns the remote count whenever that count
\* is above zero, without a call of the local strategy, and the local count
\* exactly when the remote count is zero (a failed remote call included);
\* never a sum or other combination of the two.
C11_RemoteCountOrElseLocalCount ==
    \A p \in procs :
        CountReturned(p) =>
            LET github == _check_consecutive_passes_github(CountResponse)
                local == _check_consecutive_passes_local(args[p].sku, file, TRUE)
                consulted == "_check_consecutive_passes_local" \in Range(calls[p])
            IN  /\ github > 0 =>
                       locals[p].consecutive_passes = github /\ ~consulted
                /\ github = 0 =>
                       locals[p].consecutive_passes = local /\ consulted
                /\ Decided(p) =>
                       retval[p].value.gate_info.consecutive_passes =
                           locals[p].consecutive_passes

\* a remote count of 1 returned although the local store counts 2
C11_Witness ==
    \E p \in procs :
        /\ Decided(p)
        /\ CountReturned(p)
        /\ _check_consecutive_passes_github(CountResponse) = 1
        /\ _check_consecutive_passes_local(args[p].sku, file, TRUE) = 2
        /\ retval[p].value.gate_info.consecutive_passes = 1

\* the reason of an acceptance by the drift check (line 357)
DriftReason ==
    <<"Gate PASS: Critical metrics pass, drift <= ", drift_threshold_percent, "%">>

\* calculate_drift has been called in invocation p
DriftChecked(p) == "calculate_drift" \in Range(calls[p])

\* the history fetch makes a request that raises: the listing, or the artifact
\* listing of a successful run
HistoryFetchRaises(r) ==
    \/ ~r.ok
    \/ \E i \in 1..Len(r.runs) :
          r.runs[i].conclusion = "success" /\ r.runs[i].artifacts = "raise"

\* the history fetch makes a request that fails: it raises, or a successful
\* run's artifact listing is answered with a status other than 200
HistoryFetchFails(r) ==
    \/ HistoryFetchRaises(r)
    \/ \E i \in 1..Len(r.runs) :
          r.runs[i].conclusion = "success" /\ r.runs[i].artifacts = "status"

\* the remote count makes a request that raises: the listing, or the artifact
\* listing of the SLO run the walk has come to
CountFetchRaises(r) == ~r.ok \/ EndsInRaise(SloRuns(r.runs))

\* the remote count makes a request that fails: it raises, or the artifact
\* listing of the SLO run the walk has come to is answered with another status
CountFetchFails(r) ==
    \/ CountFetchRaises(r)
    \/ LET s == SloRuns(r.runs)
           n == LeadingCounted(s)
       IN  /\ n < Len(s)
           /\ s[n + 1].conclusion = "success"
           /\ s[n + 1].artifacts = "status"

UsableSamples(r) ==
    LET holding == SelectSeq(r.runs, LAMBDA run :
                       /\ run.conclusion = "success"
                       /\ run.artifacts = "match"
                       /\ run.doc.kind = "metrics")
    IN  [i \in 1..Len(holding) |-> holding[i].doc]

\* C13: a historical artifact that is downloaded but holds no parseable
\* metrics (no JSON member, unparseable JSON, a document without usable
\* metrics) makes the history fetch discard that one sample only: the other
\* samples are collected and used for the drift check, and the decision is
\* produced, not aborted.
C13_UnusableSampleIsDiscarded ==
    \A p \in procs :
        (DriftChecked(p) /\ ~HistoryFetchRaises(HistoryResponse)) =>
            /\ pc[p] # "crashed"
            /\ ~locals[p].drift.raised
            /\ locals[p].historical_results = UsableSamples(HistoryResponse)

(***************************************************************************)
(* Properties of the drift check and of the reason (Spec).                 *)
(***************************************************************************)
\* C14: with an empty list of historical measurement sets calculate_drift
\* returns pass = true and no violations, whatever the current measurement
\* set; an invocation whose critical metrics pass and that finds no history
\* is accepted with the drift-within-threshold reason.
C14_EmptyHistoryPassesDrift ==
    \A p \in procs :
        (DriftChecked(p) /\ locals[p].historical_results = << >>) =>
            /\ locals[p].drift.pass
            /\ locals[p].drift.violations = << >>
            /\ Decided(p) =>
                   /\ ShouldPass(p)
                   /\ retval[p].value.reason = DriftReason
                   /\ retval[p].value.gate_info.drift_check_pass

\* scenario A: metrics within thresholds, no history, no earlier pass
C14_Witness ==
    \E p \in procs :
        /\ Decided(p)
        /\ DriftChecked(p)
        /\ CriticalOk(p)
        /\ locals[p].historical_results = << >>
        /\ locals[p].consecutive_passes = 0
        /\ ShouldPass(p)
        /\ retval[p].value.reason = DriftReason

(***************************************************************************)
(* Properties of calculate_drift (SpecDrift).                              *)
(***************************************************************************)
\* the samples of the history that hold metric m
Holding(history, m) == {i \in 1..Len(history) : m \in DOMAIN history[i].metrics}

\* the k-th smallest value of metric m over the samples holding it
KthSmallest(history, m, k) ==
    LET I == Holding(history, m)
        x == CHOOSE i \in I :
                 /\ Cardinality({j \in I : history[j].metrics[m]
                                              < history[i].metrics[m]}) < k
                 /\ k <= Cardinality({j \in I : history[j].metrics[m]
                                                  <= history[i].metrics[m]})
    IN  history[x].metrics[m]

\* twice the median: the middle value for an odd count, the mean of the two
\* middle values for an even count
TwiceMedian(history, m) ==
    LET n == Cardinality(Holding(history, m))
    IN  IF n % 2 = 1
        THEN 2 * KthSmallest(history, m, (n + 1) \div 2)
        ELSE KthSmallest(history, m, n \div 2) + KthSmallest(history, m, n \div 2 + 1)

\* |current - median| / median * 100 > 5, for a median above zero
Drifts(current, history, m) ==
    /\ Holding(history, m) # {}
    /\ TwiceMedian(history, m) > 0
    /\ 100 * Abs(2 * current.metrics[m] - TwiceMedian(history, m))
           > drift_threshold_percent * TwiceMedian(history, m)

\* C15: with a non-empty history a current metric is a drift violation
\* exactly when it has a historical value, the median of its historical
\* values is above zero and |current - median| / median * 100 is strictly
\* above 5; the violation carries that percentage; the check passes iff
\* there is no violation.  History [10, 12, 14]: current 12.7 is a violation,
\* 12.5 is none.
C15_ViolationIffDriftAboveThreshold ==
    (ret.done /\ arg.history # << >>) =>
        LET violations == ret.value.violations
        IN  /\ ~ret.value.raised
            /\ DOMAIN violations =
                   {m \in DOMAIN arg.current.metrics : Drifts(arg.current, arg.history, m)}
            /\ ret.value.pass <=> DOMAIN violations = {}
            /\ \A m \in DOMAIN violations :
                   violations[m][1] * TwiceMedian(arg.history, m) =
                       100 * Abs(2 * arg.current.metrics[m] - TwiceMedian(arg.history, m))
                           * violations[m][2]
            /\ (/\ Len(arg.history) = 3
                /\ \A i \in 1..3 : DriftMetricA \in DOMAIN arg.history[i].metrics
                /\ {arg.history[i].metrics[DriftMetricA] : i \in 1..3} = {100, 120, 140}
                /\ DriftMetricA \in DOMAIN arg.current.metrics) =>
                   /\ arg.current.metrics[DriftMetricA] = 127 => DriftMetricA \in DOMAIN violations
                   /\ arg.current.metrics[DriftMetricA] = 125 => DriftMetricA \notin DOMAIN violations

\* history [10, 12, 14] and current 12.7 of the first metric, with a second
\* metric whose median is negative: only the first is a violation
C15_Witness ==
    /\ ret.done
    /\ Len(arg.history) = 3
    /\ arg.history[1].metrics = (DriftMetricA :> 140 @@ DriftMetricB :> -20)
    /\ arg.history[2].metrics = (DriftMetricA :> 100 @@ DriftMetricB :> -20)
    /\ arg.history[3].metrics = (DriftMetricA :> 120 @@ DriftMetricB :> 0)
    /\ arg.current.metrics = (DriftMetricA :> 127 @@ DriftMetricB :> 10)
    /\ ~ret.value.pass
    /\ DOMAIN ret.value.violations = {DriftMetricA}

(***************************************************************************)
(* Properties of the input and of the decision of main() (Spec).           *)
(***************************************************************************)
\* invocation p has ended without a decision; the documents of Spec all hold
\* 'metrics' and 'platform', so it is one whose measurement file was missing,
\* unreadable or not JSON
EndedUndecided(p) == pc[p] \in {"exited", "crashed"} /\ ~Decided(p)

\* C16: when the current measurement file is missing, unreadable or not valid
\* JSON the process exits non-zero before any decision: no threshold check,
\* history fetch or streak count runs and no record is appended to the Run
\* History Store.
C16_LoadFailureExitsBeforeDecision ==
    \A p \in procs :
        EndedUndecided(p) =>
            /\ pc[p] = "exited"
            /\ exit_code[p] = 1
            /\ calls[p] = << >>
            /\ gate_info[p] = GateInfoInit
            /\ OwnRecords(p) = {}

\* the third invocation fails to load its file: the store keeps the two
\* records of the invocations before it
C16_Witness ==
    \E p \in procs :
        /\ EndedUndecided(p)
        /\ started = 3
        /\ exit_code[p] = 1
        /\ Len(file.runs) = 2
        /\ OwnRecords(p) = {}

\* the reason of an acceptance by the override (line 359)
OverrideReason(count) ==
    <<"Gate PASS: Critical metrics pass, ", count, " consecutive passes">>

\* C17: the reason of the returned decision names the branch taken, in strict
\* precedence: the critical-failure reason whenever a critical metric fails;
\* the drift-within-threshold reason whenever the critical metrics pass and
\* the drift check passes, also with a consecutive-pass count of 2 or more;
\* the override reason only when the critical metrics pass, the drift check
\* fails and the count is at least 2; the drift-failure reason otherwise.
C17_ReasonNamesTheBranchTaken ==
    \A p \in procs :
        Decided(p) =>
            LET reason == retval[p].value.reason
                count == locals[p].consecutive_passes
            IN  /\ reason = retval[p].value.gate_info.reason
                /\ IF ~CriticalOk(p)
                   THEN /\ reason[1] = "Critical metrics failed: "
                        /\ ~ShouldPass(p)
                   ELSE IF locals[p].drift.pass
                   THEN /\ reason = DriftReason
                        /\ ShouldPass(p)
                   ELSE IF count >= consecutive_passes_required
                   THEN /\ reason = OverrideReason(count)
                        /\ ShouldPass(p)
                   ELSE /\ reason[1] = "Gate FAIL: "
                        /\ Len(reason[2]) = 1
                        /\ reason[2][1][1] = "drift > "
                        /\ ~ShouldPass(p)

\* the drift check passes while two consecutive passes are counted: the
\* reason is the drift one
C17_Witness ==
    \E p \in procs :
        /\ Decided(p)
        /\ CriticalOk(p)
        /\ DriftChecked(p)
        /\ locals[p].drift.pass
        /\ locals[p].consecutive_passes >= consecutive_passes_required
        /\ retval[p].value.reason = DriftReason

LastTwoPassed(runs, sku) ==
    LET own == SkuRuns(runs, sku)
    IN  /\ Len(own) >= 2
        /\ own[Len(own)].gate_passed
        /\ own[Len(own) - 1].gate_passed

\* C19: whenever the critical metrics pass, a metric drifts beyond the
\* threshold against history and the last 2 runs of this configuration in the
\* local store both passed, the decision is true through the consecutive-pass
\* override and the reason names the override, whatever count (a non-zero
\* count below 2 included) the remote strategy produced.
C19_LocalStreakOverridesDrift ==
    \A p \in procs :
        (/\ Decided(p) /\ pc[p] = "_record_gate_result"
         /\ CriticalOk(p)
         /\ DriftChecked(p)
         /\ \E m \in DOMAIN results[p].metrics :
                Drifts(results[p], locals[p].historical_results, m)
         /\ LastTwoPassed(file.runs, args[p].sku)) =>
            /\ ShouldPass(p)
            /\ retval[p].value.reason[1] = "Gate PASS: Critical metrics pass, "
            /\ retval[p].value.reason[3] = " consecutive passes"

(***************************************************************************)
(* Properties of the exit of main() (SpecInput).                           *)
(***************************************************************************)
\* C20: for every invocation that reaches a decision the exit code is 0
\* exactly when the decision is true and 1 when it is false, and the process
\* exits only after the run record is written and the report emitted.
C20_ExitCodeIsTheDecision ==
    \A p \in procs :
        /\ exit_code[p] # -1 => pc[p] \in {"exited", "crashed"}
        /\ (Decided(p) /\ pc[p] \in {"exited", "crashed"}) =>
               /\ exit_code[p] = IF ShouldPass(p) THEN 0 ELSE 1
               /\ Cardinality(OwnRecords(p)) = 1
               /\ pc[p] = "exited"
               /\ Last(calls[p]) = "generate_report"

(***************************************************************************)
(* Properties of a sequence of invocations of main() (SpecStreak).         *)
(***************************************************************************)
\* every answer the remote count may get yields zero
RemoteAlwaysZero ==
    \A response \in env.count_responses : _check_consecutive_passes_github(response) = 0

\* the store holds records of one configuration only, each of a measurement
\* that passes the critical check; it is in order of writing, one record per
\* invocation
OneConfigurationCriticalOk(runs) ==
    \A i \in 1..Len(runs) :
        /\ runs[i].sku = runs[1].sku
        /\ \A m \in CriticalSet :
               m \in DOMAIN runs[i].metrics /\ runs[i].metrics[m] <= critical_metrics[m]

\* C21: a run accepted (through the override or not) is recorded with
\* gate_passed true, and in a sequence of invocations of one configuration in
\* which the remote count is always zero and the critical metrics always pass,
\* once two consecutive invocations were accepted no later one is rejected,
\* whatever its drift.
C21_EstablishedStreakPersists ==
    (RemoteAlwaysZero /\ file.kind = "ok" /\ OneConfigurationCriticalOk(file.runs)) =>
        /\ \A p \in procs :
               (Decided(p) /\ pc[p] \in {"generate_report", "exited"}) =>
                   Last(file.runs).gate_passed = ShouldPass(p)
        /\ \A i \in 1..(Len(file.runs) - 2) :
               (file.runs[i].gate_passed /\ file.runs[i + 1].gate_passed) =>
                   \A k \in (i + 2)..Len(file.runs) : file.runs[k].gate_passed

(***************************************************************************)
(* Properties of the store shared by the configurations (SpecShared).      *)
(***************************************************************************)
\* the count _check_consecutive_passes_local returns for sku on store file f
LocalCount(sku, f) == _check_consecutive_passes_local(sku, f, TRUE)

\* C22 as stated: recording a gate result for another configuration id never
\* changes the count _check_consecutive_passes_local returns for this
\* configuration.
C22_OtherRecordsNeverChangeCount ==
    [][\A sku \in Skus :
          (Recorded /\ arg'.sku # sku) =>
              LocalCount(sku, file') = LocalCount(sku, file)]_vars

\* C22: recording a gate result for another configuration id does not change
\* the count _check_consecutive_passes_local returns for this configuration
\* as long as every record of this configuration that was in the store is
\* still in it afterwards; a recording on a full store evicts the oldest
\* record, and the count may change when that is a record of this
\* configuration.
C22_OtherRecordsKeepCountWhileOwnRecordsStay ==
    [][\A sku \in Skus :
          (/\ Recorded /\ arg'.sku # sku
           /\ \A i \in 1..Len(file.runs) :
                  file.runs[i].sku = sku =>
                      \E j \in 1..Len(file'.runs) : file'.runs[j] = file.runs[i]) =>
              LocalCount(sku, file') = LocalCount(sku, file)]_vars

\* a record of sku-b has just been stored, which filled the store, and sku-a
\* keeps its two records and its count of 2
C22_Witness ==
    /\ started >= 1
    /\ arg.sku = "sku-b"
    /\ Len(ret.value.runs) = MaxHistoryRuns - 1
    /\ Len(file.runs) = MaxHistoryRuns
    /\ file.runs[1].sku = "sku-a" /\ file.runs[2].sku = "sku-a"
    /\ LocalCount("sku-a", OkFile(ret.value.runs)) = 2
    /\ LocalCount("sku-a", file) = 2

====
